---- MODULE Spec2Model ----
(***************************************************************************)
(* backups-api (src/main.go): an HTTP server whose GET /recent handler     *)
(* scans a root directory for borg repositories, lists each repository's   *)
(* archives with `borg list`, keeps the newest archive per repository,     *)
(* looks for the newest MySQL backup inside each of those archives and     *)
(* answers a JSON array sorted by archive date.                            *)
(*                                                                         *)
(* Text is modelled by its tokens.  A line of tool output is the sequence  *)
(* of its whitespace-separated fields (what strings.Fields returns), a     *)
(* stream of bytes is a sequence of chunks in which "\n" is the newline    *)
(* byte, an error message is the sequence of its pieces.                   *)
(*                                                                         *)
(* Two specifications share the module:                                    *)
(*   Spec      main() and the /recent handler, one request at a time       *)
(*             (requests share no mutable state: borgBinary is written     *)
(*             once, before the server listens);                           *)
(*   SpecPipe  one borgList call at the level of the two OS pipes between  *)
(*             the server and the child process.                           *)
(***************************************************************************)
EXTENDS Integers, Sequences, FiniteSets, TLC

VARIABLES
    \* ---- environment of the process
    osArgs,        \* os.Args
    borgLoc,       \* where borg is: "cwd" (./borg exists), "path" ($PATH only), "none"
    portFree,      \* whether ListenAndServe can bind the port
    \* ---- main() and the handler
    pc,            \* position of main() / of the request being handled
    borgBinary,    \* the package variable borgBinary
    root,          \* getMostRecentArchivesPerRepository: root
    files,         \* findRepositories: result of ioutil.ReadDir
    readDirErr,    \* findRepositories: whether ioutil.ReadDir returned an error
    repoNames,     \* findRepositories' result / the loop's range
    scanErr,       \* findRepositories' error
    idx,           \* position of the running range loop
    archives,      \* the archives slice (getMostRecent..., then the handler)
    listed,        \* history: the tool's output for each repository listed so far
    returned,      \* history: archives as getMostRecent... returned them
    lastOut,       \* the tool's output for the archive listing being parsed
    mysqlBackups,  \* getMostRecentMysqlBackupInArchive: mysqlBackups
    mysqlErr,      \* getMostRecentMysqlBackupInArchive: err
    jsonItems,     \* recentHandler: jsonItems
    response,      \* what the handler wrote: status, content type, body
    \* ---- one borgList call, pipe level (SpecPipe)
    bpc,           \* position of borgList
    prog,          \* the writes the child still has to do
    childExit,     \* the child's exit status
    childState,    \* "notstarted", "unstartable", "running", "exited"
    pipeOut,       \* bytes in the stdout pipe
    pipeErr,       \* bytes in the stderr pipe
    bufOut,        \* what ioutil.ReadAll(stdoutPipe) has read so far
    bufErr,        \* what ioutil.ReadAll(stderrPipe) has read so far
    bres           \* borgList's return values

envVars  == <<osArgs, borgLoc, portFree>>
reqVars  == <<root, files, readDirErr, repoNames, scanErr, idx, archives, listed,
              returned, lastOut, mysqlBackups, mysqlErr, jsonItems, response>>
pipeVars == <<bpc, prog, childExit, childState, pipeOut, pipeErr, bufOut, bufErr, bres>>
vars     == <<envVars, pc, borgBinary, reqVars, pipeVars>>

----------------------------------------------------------------------------
\* Bounds of the model.

\* most entries ioutil.ReadDir returns for the root
MaxEntries == 2
\* most lines in the output of `borg list <repository>`
MaxLines == 2
\* most lines in the output of `borg list <repository>::<archive>`
MaxFileLines == 2
\* most write calls the child process does before it exits
MaxWrites == 5
\* capacity of an OS pipe, in chunks
PipeCap == 4

----------------------------------------------------------------------------
\* Program constants.

\* findArchives: "if len(fields) < 4"
MinArchiveFields == 4
\* findMysqlBackups: "if len(fields) < 8"
MinFileFields == 8
\* http.StatusInternalServerError
StatusInternalServerError == 500
\* the status of a response written with w.Write alone
StatusOK == 200

----------------------------------------------------------------------------
\* Errors: Go's error interface.  A non-nil error may carry an empty message.

Nil == [isNil |-> TRUE, msg |-> <<>>]

\* errors.New / fmt.Errorf
NewError(msg) == [isNil |-> FALSE, msg |-> msg]

RECURSIVE SeqMin(_)
SeqMin(S) ==
    LET x == CHOOSE y \in S : TRUE
    IN  IF S = {x} THEN x
        ELSE LET m == SeqMin(S \ {x}) IN IF x < m THEN x ELSE m

\* bytes.Buffer.ReadString('\n'): the data up to AND INCLUDING the first
\* delimiter; everything, when there is no delimiter.
ReadString(buf) ==
    LET at == {i \in 1..Len(buf) : buf[i] = "\n"}
    IN  IF at = {} THEN buf ELSE SubSeq(buf, 1, SeqMin(at))

----------------------------------------------------------------------------
\* time.Parse("Mon, 2006-01-02 15:04:05", str) and Time.Format(time.RFC3339).
\* str is strings.Join(fields[a:b], " "): three fields.  A time is its Unix
\* time in seconds (the layout has no zone: UTC).

Weekdays == {"Mon,", "Tue,", "Wed,", "Thu,", "Fri,", "Sat,", "Sun,"}

\* days since 1970-01-01 of the dates the model's listings use
DayOf == ("2016-01-26" :> 16826) @@ ("2016-01-27" :> 16827) @@ ("2016-01-28" :> 16828)

\* seconds since midnight of the times of day the model's listings use
SecOf == ("03:01:19" :> 10879) @@ ("15:04:05" :> 54245)

\* time.Parse does not check that the weekday is the date's weekday.
timeParse(str) ==
    IF  /\ Len(str) = 3
        /\ str[1] \in Weekdays
        /\ str[2] \in DOMAIN DayOf
        /\ str[3] \in DOMAIN SecOf
    THEN [ok |-> TRUE, t |-> DayOf[str[2]] * 86400 + SecOf[str[3]]]
    ELSE [ok |-> FALSE, t |-> 0]

\* Time.Format(time.RFC3339) of a UTC time: 2006-01-02T15:04:05Z
FormatRFC3339(t) ==
    << CHOOSE d \in DOMAIN DayOf : DayOf[d] = t \div 86400,
       "T",
       CHOOSE s \in DOMAIN SecOf : SecOf[s] = t % 86400,
       "Z" >>

----------------------------------------------------------------------------
\* path.Match(glob, p) for patterns whose only metacharacter is `*`: `*`
\* matches any run of non-separator characters.  A path or a pattern is the
\* sequence of its pieces; "/" is the separator and "*" the wildcard.

PathPieces ==
    ("var/backups/mysql/daily/2021-05-01.sql.gz" :>
        <<"var", "/", "backups", "/", "mysql", "/", "daily", "/", "2021-05-01", ".sql.gz">>)
    @@ ("var/backups/mysql/daily/x/ibdata1" :>
        <<"var", "/", "backups", "/", "mysql", "/", "daily", "/", "x", "/", "ibdata1">>)
    @@ ("var/backups/other/x.sql.gz" :>
        <<"var", "/", "backups", "/", "other", "/", "x", ".sql.gz">>)
    @@ ("var/backups/mysql/daily/x/y.sql.gz" :>
        <<"var", "/", "backups", "/", "mysql", "/", "daily", "/", "x", "/", "y", ".sql.gz">>)

\* findMysqlBackups: globs
globs ==
    << <<"var", "/", "backups", "/", "mysql", "/", "daily", "/", "*", ".sql.gz">>,
       <<"var", "/", "backups", "/", "mysql", "/", "daily", "/", "*", "/", "ibdata1">> >>

RECURSIVE Match(_, _)
Match(pattern, name) ==
    IF pattern = <<>> THEN name = <<>>
    ELSE IF Head(pattern) = "*"
         THEN \/ Match(Tail(pattern), name)
              \/ name # <<>> /\ Head(name) # "/" /\ Match(pattern, Tail(name))
         ELSE /\ name # <<>>
              /\ Head(name) = Head(pattern)
              /\ Match(Tail(pattern), Tail(name))

----------------------------------------------------------------------------
\* The external tool.  An outcome of one run of `borg list <arg>` is whether
\* the child started, its exit status, the lines it wrote to standard output
\* and the bytes it wrote to standard error.

NotARepoStderr == <<"repository does not exist", "\n", "foo", "\n">>

StderrChoices == { <<>>, NotARepoStderr, <<"Failed to create/acquire the lock">> }

Outcome(exit, stdout, stderr) ==
    [started |-> TRUE, exit |-> exit, stdout |-> stdout, stderr |-> stderr]

\* the child could not be started (cmd.Start or a pipe failed)
StartFailure == [started |-> FALSE, exit |-> 0, stdout |-> <<>>, stderr |-> <<>>]

\* sequences over S of length at most n
RECURSIVE SeqsUpTo(_, _)
SeqsUpTo(S, n) ==
    IF n = 0 THEN {<<>>}
    ELSE LET shorter == SeqsUpTo(S, n - 1)
         IN  shorter \cup {Append(s, x) : s \in {t \in shorter : Len(t) = n - 1}, x \in S}

\* lines of `borg list <repository>` (borg 0.30: name, weekday, date, time)
ArchiveLines ==
    { <<"a1", "Wed,", "2016-01-27", "03:01:19">>,
      <<"a2", "Thu,", "2016-01-28", "03:01:19">>,
      <<"a3", "Tue,", "2016-01-26", "15:04:05">>,
      <<"a4", "Sat", "Jan", "2", "15:04:05", "2006">>,
      <<"a5", "Wed,", "2016-13-01", "03:01:19">>,
      <<"a0", "Wed,", "2016-01-27">> }

\* lines of `borg list <repository>::<archive>`
\* (permissions, user, group, size, weekday, date, time, path)
FileLines ==
    { <<"-rw-r--r--", "root", "root", "1024", "Wed,", "2016-01-27", "03:01:19",
        "var/backups/mysql/daily/2021-05-01.sql.gz">>,
      <<"-rw-rw----", "mysql", "mysql", "2048", "Thu,", "2016-01-28", "03:01:19",
        "var/backups/mysql/daily/x/ibdata1">>,
      <<"-rw-r--r--", "root", "root", "0", "Thu,", "2016-01-28", "15:04:05",
        "var/backups/mysql/daily/2021-05-01.sql.gz">>,
      <<"-rw-r--r--", "root", "root", "77", "Thu,", "2016-01-28", "15:04:05",
        "var/backups/other/x.sql.gz">>,
      <<"-rw-r--r--", "root", "root", "78", "Thu,", "2016-01-28", "15:04:05",
        "var/backups/mysql/daily/x/y.sql.gz">>,
      <<"-rw-r--r--", "root", "root", "1024", "okt", "9", "18:09",
        "var/backups/mysql/daily/2021-05-01.sql.gz">>,
      <<"drwxr-xr-x", "root", "root", "0", "Wed,", "2016-01-27", "03:01:19">> }

ToolOutcomes(lines, n) ==
    {Outcome(0, l, e) : l \in SeqsUpTo(lines, n), e \in {<<>>}}
    \cup {Outcome(2, <<>>, e) : e \in StderrChoices}
    \cup {StartFailure}

----------------------------------------------------------------------------
\* The file system.  A path is the sequence of its pieces.

HomeDir == "/home/borg"

\* os.Stat: what exists at a path
Stat(path) ==
    IF path \in { <<"/backups">>, <<HomeDir, "/backups">> } THEN "dir"
    ELSE IF path = <<"/etc/hostname">> THEN "file"
    ELSE "absent"

\* The command lines the process is started with: no root, a root that is a
\* directory (written with and without ~/), a missing root, a root that is
\* a regular file.
ArgChoices ==
    { << <<"backups-api">> >>,
      << <<"backups-api">>, <<"/backups">> >>,
      << <<"backups-api">>, <<"~", "/backups">> >>,
      << <<"backups-api">>, <<"/nonexistent">> >>,
      << <<"backups-api">>, <<"/etc/hostname">> >> }

\* The entries the root directory may hold, in name order, each with what
\* `borg list <root>/<name>` does for it.
Candidates ==
    << [name |-> "alpha",     isDir |-> TRUE,  probe |-> Outcome(0, <<>>, <<>>)],
       [name |-> "beta",      isDir |-> TRUE,  probe |-> Outcome(0, <<>>, <<>>)],
       [name |-> "notarepo",  isDir |-> TRUE,  probe |-> Outcome(2, <<>>, NotARepoStderr)],
       [name |-> "notes.txt", isDir |-> FALSE, probe |-> Outcome(2, <<>>, NotARepoStderr)] >>

RECURSIVE EntriesAt(_)
EntriesAt(S) ==
    IF S = {} THEN <<>>
    ELSE LET m == SeqMin(S) IN <<Candidates[m]>> \o EntriesAt(S \ {m})

\* ioutil.ReadDir(root): an error, or the entries sorted by file name
ReadDirResults ==
    { [files |-> <<>>, err |-> NewError(<<"open", "permission denied">>)] }
    \cup { [files |-> EntriesAt(S), err |-> Nil] :
             S \in {T \in SUBSET (1..Len(Candidates)) : Cardinality(T) <= MaxEntries} }

----------------------------------------------------------------------------
\* The functions of src/main.go.

expandTilde(f) ==
    IF Len(f) >= 2 /\ f[1] = "~" THEN <<HomeDir>> \o Tail(f) ELSE f

getRoot(args) ==
    IF Len(args) < 2
    THEN [root |-> <<>>, err |-> NewError(<<"You have to provide a root directory">>)]
    ELSE LET r == expandTilde(args[Len(args)])
         IN  IF Stat(r) = "absent"
             THEN [root |-> <<>>, err |-> NewError(r \o <<"doesn't exist">>)]
             ELSE IF Stat(r) # "dir"
             THEN [root |-> <<>>, err |-> NewError(r \o <<"is not a directory">>)]
             ELSE [root |-> r, err |-> Nil]

\* exec.LookPath("./" + file), then exec.LookPath(file)
lookPath(file) ==
    IF borgLoc = "cwd" THEN [path |-> <<"./", file>>, err |-> Nil]
    ELSE IF borgLoc = "path" THEN [path |-> <<"/usr/bin/", file>>, err |-> Nil]
    ELSE [path |-> <<>>,
          err |-> NewError(<<"exec:", file, "executable file not found in $PATH">>)]

findBorgBinary == lookPath("borg")

\* borgList, given what the child does (it writes less than a pipe holds;
\* SpecPipe has the general case): the error of cmd.Start when the child
\* does not start; after a non-zero exit status the first line of stderr as
\* the error, and neither output.
borgList(o) ==
    LET line == ReadString(o.stderr)
    IN  IF ~o.started
        THEN [stdout |-> <<>>, stderr |-> <<>>,
              err |-> NewError(<<"fork/exec", "no such file or directory">>)]
        ELSE IF o.exit # 0
        THEN [stdout |-> <<>>, stderr |-> <<>>, err |-> NewError(line)]
        ELSE [stdout |-> o.stdout, stderr |-> o.stderr, err |-> Nil]

isRepository(o) ==
    LET r == borgList(o)
    IN  IF ~r.err.isNil THEN [isRepo |-> FALSE, err |-> r.err]
        ELSE [isRepo |-> TRUE, err |-> Nil]

\* the loop of findRepositories over the directory entries
RECURSIVE findRepositoriesLoop(_, _)
findRepositoriesLoop(fs, names) ==
    IF fs = <<>> THEN [repoNames |-> names, err |-> Nil]
    ELSE LET f == Head(fs) IN
         IF ~f.isDir THEN findRepositoriesLoop(Tail(fs), names)
         ELSE LET r == isRepository(f.probe) IN
              IF ~r.err.isNil THEN [repoNames |-> names, err |-> r.err]
              ELSE IF ~r.isRepo THEN findRepositoriesLoop(Tail(fs), names)
              ELSE findRepositoriesLoop(Tail(fs), Append(names, f.name))

\* rd is what ioutil.ReadDir(root) returned
findRepositories(rd) ==
    IF ~rd.err.isNil THEN [repoNames |-> <<>>, err |-> Nil]
    ELSE findRepositoriesLoop(rd.files, <<>>)

\* strings.Split(string(stdout), "\n"): the tool ends every line with "\n",
\* so an empty piece follows the last line (and is all there is, for no output)
SplitLines(stdout) == Append(stdout, <<>>)

\* variant of findArchivesLoop that skips a line that does not parse
RECURSIVE findArchivesLoopSkip(_, _, _)
findArchivesLoopSkip(lines, repoName, found) ==
    IF lines = <<>> THEN [archives |-> found, err |-> Nil]
    ELSE LET fields == Head(lines) IN
         IF Len(fields) < MinArchiveFields
         THEN findArchivesLoopSkip(Tail(lines), repoName, found)
         ELSE LET str == SubSeq(fields, 2, 4)
                  p   == timeParse(str)
              IN  IF ~p.ok
                  THEN findArchivesLoopSkip(Tail(lines), repoName, found)
                  ELSE findArchivesLoopSkip(Tail(lines), repoName,
                           Append(found, [Name |-> fields[1], RepoName |-> repoName,
                                          Datetime |-> p.t]))

\* the loop of findArchives over the lines of stdout
RECURSIVE findArchivesLoop(_, _, _)
findArchivesLoop(lines, repoName, found) ==
    IF lines = <<>> THEN [archives |-> found, err |-> Nil]
    ELSE LET fields == Head(lines) IN
         IF Len(fields) < MinArchiveFields
         THEN findArchivesLoop(Tail(lines), repoName, found)
         ELSE LET str == SubSeq(fields, 2, 4)
                  p   == timeParse(str)
              IN  IF ~p.ok
                  THEN [archives |-> found, err |-> NewError(<<"Can't parse">> \o str)]
                  ELSE findArchivesLoop(Tail(lines), repoName,
                           Append(found, [Name |-> fields[1], RepoName |-> repoName,
                                          Datetime |-> p.t]))

\* o is what `borg list <root>/<repoName>` does
findArchives(repoName, o) ==
    LET r == borgList(o)
    IN  IF ~r.err.isNil THEN [archives |-> <<>>, err |-> r.err]
        ELSE findArchivesLoop(SplitLines(r.stdout), repoName, <<>>)

\* variant of newest that takes the first record
oldest(newArchives) == newArchives[1]

\* getMostRecentArchivesPerRepository: "Newest is last"
newest(newArchives) == newArchives[Len(newArchives)]

\* the sequences that hold the elements of s in another order
Reorderings(s) ==
    { [i \in 1..Len(s) |-> s[f[i]]] : f \in Permutations(1..Len(s)) }

\* variant of sortArchives that leaves the order as it is
unsortedArchives(s) == {s}

\* slice.Sort(archives, Datetime.Before): the sort is not stable, so any
\* order with no later element before an earlier one may come out
sortArchives(s) ==
    { p \in Reorderings(s) :
        \A i, j \in 1..Len(p) : i < j => ~(p[j].Datetime < p[i].Datetime) }

\* the globs loop of findMysqlBackups (path.Match returns no error for
\* these two patterns)
matchGlobs(p) == \E g \in 1..Len(globs) : Match(globs[g], PathPieces[p])

\* variant of findMysqlBackupsLoop without the size check
RECURSIVE findMysqlBackupsLoopAnySize(_, _)
findMysqlBackupsLoopAnySize(lines, found) ==
    IF lines = <<>> THEN [files |-> found, err |-> Nil]
    ELSE LET fields == Head(lines) IN
         IF Len(fields) < MinFileFields THEN findMysqlBackupsLoopAnySize(Tail(lines), found)
         ELSE LET datetimeStr == SubSeq(fields, 5, 7)
                  p           == fields[8]
                  t           == timeParse(datetimeStr)
              IN  IF ~matchGlobs(p) THEN findMysqlBackupsLoopAnySize(Tail(lines), found)
                  ELSE IF ~t.ok
                  THEN [files |-> found, err |-> NewError(<<"Can't parse">> \o datetimeStr)]
                  ELSE findMysqlBackupsLoopAnySize(Tail(lines),
                           Append(found, [Path |-> p, Mtime |-> t.t]))

\* the loop of findMysqlBackups over the lines of stdout
RECURSIVE findMysqlBackupsLoop(_, _)
findMysqlBackupsLoop(lines, found) ==
    IF lines = <<>> THEN [files |-> found, err |-> Nil]
    ELSE LET fields == Head(lines) IN
         IF Len(fields) < MinFileFields THEN findMysqlBackupsLoop(Tail(lines), found)
         ELSE LET size        == fields[4]
                  datetimeStr == SubSeq(fields, 5, 7)
                  p           == fields[8]
                  t           == timeParse(datetimeStr)
              IN  IF size = "0" THEN findMysqlBackupsLoop(Tail(lines), found)
                  ELSE IF ~matchGlobs(p) THEN findMysqlBackupsLoop(Tail(lines), found)
                  ELSE IF ~t.ok
                  THEN [files |-> found, err |-> NewError(<<"Can't parse">> \o datetimeStr)]
                  ELSE findMysqlBackupsLoop(Tail(lines),
                           Append(found, [Path |-> p, Mtime |-> t.t]))

\* o is what `borg list <root>/<archive.RepoName>::<archive.Name>` does
findMysqlBackups(args, o) ==
    LET g == getRoot(args) IN
    IF ~g.err.isNil THEN [files |-> <<>>, err |-> g.err]
    ELSE LET r == borgList(o) IN
         IF ~r.err.isNil THEN [files |-> <<>>, err |-> r.err]
         ELSE findMysqlBackupsLoop(SplitLines(r.stdout), <<>>)

\* slice.Sort(mysqlBackups, Mtime.After): newest first, not stable
sortBackups(s) ==
    { p \in Reorderings(s) :
        \A i, j \in 1..Len(p) : i < j => ~(p[j].Mtime > p[i].Mtime) }

\* The possible return values (*file, error); the pointer is a sequence of
\* no file (nil) or one file.
getMostRecentMysqlBackupInArchive(backups, err) ==
    IF ~err.isNil THEN { [file |-> <<>>, err |-> Nil] }
    ELSE IF Len(backups) = 0 THEN { [file |-> <<>>, err |-> err] }
    ELSE { [file |-> <<p[1]>>, err |-> err] : p \in sortBackups(backups) }

\* http.Error(w, err.Error(), http.StatusInternalServerError)
httpError(err) ==
    [status |-> StatusInternalServerError,
     ctype  |-> "text/plain; charset=utf-8",
     body   |-> Append(err.msg, "\n")]

\* recentHandler: the item of one archive
jsonItem(archive, mysqlBackup) ==
    [repo       |-> archive.RepoName,
     date       |-> FormatRFC3339(archive.Datetime),
     mysql_date |-> IF mysqlBackup = <<>> THEN <<>>
                    ELSE FormatRFC3339(mysqlBackup[1].Mtime)]

----------------------------------------------------------------------------
\* main() and the handler of GET /recent.

NoResponse == [status |-> 0, ctype |-> "", body |-> <<>>]

NoOutcome == Outcome(0, <<>>, <<>>)

\* the handler's variables before a request
FreshRequest ==
    /\ root = <<>>
    /\ files = <<>>
    /\ readDirErr = FALSE
    /\ repoNames = <<>>
    /\ scanErr = Nil
    /\ idx = 1
    /\ archives = <<>>
    /\ listed = <<>>
    /\ returned = <<>>
    /\ lastOut = NoOutcome
    /\ mysqlBackups = <<>>
    /\ mysqlErr = Nil
    /\ jsonItems = <<>>
    /\ response = NoResponse

\* a new request starts with fresh variables
ResetRequest ==
    /\ root' = <<>>
    /\ files' = <<>>
    /\ readDirErr' = FALSE
    /\ repoNames' = <<>>
    /\ scanErr' = Nil
    /\ idx' = 1
    /\ archives' = <<>>
    /\ listed' = <<>>
    /\ returned' = <<>>
    /\ lastOut' = NoOutcome
    /\ mysqlBackups' = <<>>
    /\ mysqlErr' = Nil
    /\ jsonItems' = <<>>
    /\ response' = NoResponse

PipeIdle ==
    /\ bpc = "start"
    /\ prog = <<>>
    /\ childExit = 0
    /\ childState = "notstarted"
    /\ pipeOut = <<>>
    /\ pipeErr = <<>>
    /\ bufOut = <<>>
    /\ bufErr = <<>>
    /\ bres = [stdout |-> <<>>, stderr |-> <<>>, err |-> Nil]

Init ==
    /\ osArgs \in ArgChoices
    /\ borgLoc \in {"none", "cwd", "path"}
    /\ portFree \in BOOLEAN
    /\ pc = "main"
    /\ borgBinary = <<>>
    /\ FreshRequest
    /\ PipeIdle

\* main(): log.Fatal ends the process with status 1
Main ==
    /\ pc = "main"
    /\ LET r == findBorgBinary IN
       IF ~r.err.isNil
       THEN /\ pc' = "exited"
            /\ UNCHANGED borgBinary
       ELSE /\ borgBinary' = r.path
            /\ pc' = IF portFree THEN "listening" ELSE "exited"
    /\ UNCHANGED <<envVars, reqVars, pipeVars>>

\* the server calls recentHandler for a GET /recent
RecentRequest ==
    /\ pc \in {"listening", "responded"}
    /\ pc' = "getRoot"
    /\ ResetRequest
    /\ UNCHANGED <<envVars, borgBinary, pipeVars>>

\* getMostRecentArchivesPerRepository: root, err := getRoot()
GetRoot ==
    /\ pc = "getRoot"
    /\ LET r == getRoot(osArgs) IN
       IF ~r.err.isNil
       THEN /\ response' = httpError(r.err)
            /\ pc' = "responded"
            /\ UNCHANGED root
       ELSE /\ root' = r.root
            /\ pc' = "findRepositories"
            /\ UNCHANGED response
    /\ UNCHANGED <<envVars, borgBinary, files, readDirErr, repoNames, scanErr, idx,
                   archives, listed, returned, lastOut, mysqlBackups, mysqlErr,
                   jsonItems, pipeVars>>

\* findRepositories(root), to its return; or to a probe of a directory that
\* never returns (BorgListHangs)
FindRepositories ==
    /\ pc = "findRepositories"
    /\ \E rd \in ReadDirResults :
         LET r == findRepositories(rd) IN
         /\ files' = rd.files
         /\ readDirErr' = ~rd.err.isNil
         /\ \/ /\ repoNames' = r.repoNames
               /\ scanErr' = r.err
               /\ pc' = "scanned"
            \/ /\ \E i \in 1..Len(rd.files) : rd.files[i].isDir
               /\ pc' = "hung"
               /\ UNCHANGED <<repoNames, scanErr>>
    /\ UNCHANGED <<envVars, borgBinary, root, idx, archives, listed, returned, lastOut,
                   mysqlBackups, mysqlErr, jsonItems, response, pipeVars>>

\* where getMostRecentArchivesPerRepository is with i the next index of its loop
loopPc(i, n) == IF i > n THEN "sort" ELSE "findArchives"

\* getMostRecentArchivesPerRepository: "if err != nil" after findRepositories
Scanned ==
    /\ pc = "scanned"
    /\ IF ~scanErr.isNil
       THEN /\ response' = httpError(scanErr)
            /\ pc' = "responded"
       ELSE /\ pc' = loopPc(1, Len(repoNames))
            /\ UNCHANGED response
    /\ files' = <<>>
    /\ UNCHANGED <<envVars, borgBinary, root, readDirErr, repoNames, scanErr, idx,
                   archives, listed, returned, lastOut, mysqlBackups, mysqlErr,
                   jsonItems, pipeVars>>

\* one round of the loop over repoNames
FindArchives ==
    /\ pc = "findArchives"
    /\ \E o \in ToolOutcomes(ArchiveLines, MaxLines) :
         LET r == findArchives(repoNames[idx], o) IN
         /\ listed' = Append(listed, o)
         /\ IF ~r.err.isNil
            THEN /\ archives' = <<>>
                 /\ response' = httpError(r.err)
                 /\ pc' = "responded"
                 /\ UNCHANGED idx
            ELSE /\ archives' = IF Len(r.archives) = 0 THEN archives
                                ELSE Append(archives, newest(r.archives))
                 /\ idx' = idx + 1
                 /\ pc' = loopPc(idx + 1, Len(repoNames))
                 /\ UNCHANGED response
    /\ UNCHANGED <<envVars, borgBinary, root, files, readDirErr, repoNames, scanErr,
                   returned, lastOut, mysqlBackups, mysqlErr, jsonItems, pipeVars>>

\* recentHandler: getMostRecentArchivesPerRepository returned; slice.Sort
SortArchives ==
    /\ pc = "sort"
    /\ returned' = archives
    /\ archives' \in sortArchives(archives)
    /\ listed' = <<>>
    /\ idx' = 1
    /\ pc' = IF archives = <<>> THEN "marshal" ELSE "findMysqlBackups"
    /\ UNCHANGED <<envVars, borgBinary, root, files, readDirErr, repoNames, scanErr,
                   lastOut, mysqlBackups, mysqlErr, jsonItems, response, pipeVars>>

\* getMostRecentMysqlBackupInArchive: mysqlBackups, err := findMysqlBackups(archive)
FindMysqlBackups ==
    /\ pc = "findMysqlBackups"
    /\ \E o \in ToolOutcomes(FileLines, MaxFileLines) :
         LET r == findMysqlBackups(osArgs, o) IN
         /\ lastOut' = o
         /\ mysqlBackups' = r.files
         /\ mysqlErr' = r.err
    /\ pc' = "mostRecent"
    /\ UNCHANGED <<envVars, borgBinary, root, files, readDirErr, repoNames, scanErr,
                   idx, archives, listed, returned, jsonItems, response, pipeVars>>

\* the rest of getMostRecentMysqlBackupInArchive and of the round of the
\* handler's loop that called it
MostRecentMysqlBackup ==
    /\ pc = "mostRecent"
    /\ \E r \in getMostRecentMysqlBackupInArchive(mysqlBackups, mysqlErr) :
         IF ~r.err.isNil
         THEN /\ response' = httpError(r.err)
              /\ pc' = "responded"
              /\ UNCHANGED <<jsonItems, idx>>
         ELSE /\ jsonItems' = Append(jsonItems, jsonItem(archives[idx], r.file))
              /\ idx' = idx + 1
              /\ pc' = IF idx + 1 > Len(archives) THEN "marshal" ELSE "findMysqlBackups"
              /\ UNCHANGED response
    /\ lastOut' = NoOutcome
    /\ mysqlBackups' = <<>>
    /\ mysqlErr' = Nil
    /\ UNCHANGED <<envVars, borgBinary, root, files, readDirErr, repoNames, scanErr,
                   archives, listed, returned, pipeVars>>

\* json.Marshal(jsonItems) (no error for a slice of structs of strings),
\* the header and w.Write
Marshal ==
    /\ pc = "marshal"
    /\ response' = [status |-> StatusOK, ctype |-> "application/json", body |-> jsonItems]
    /\ pc' = "responded"
    /\ UNCHANGED <<envVars, borgBinary, root, files, readDirErr, repoNames, scanErr,
                   idx, archives, listed, returned, lastOut, mysqlBackups, mysqlErr,
                   jsonItems, pipeVars>>

\* borgList never returns: the child does not exit, or the pipes block
\* (SpecPipe); there is no timeout
BorgListHangs ==
    /\ pc \in {"findArchives", "findMysqlBackups"}
    /\ pc' = "hung"
    /\ UNCHANGED <<envVars, borgBinary, reqVars, pipeVars>>

Next ==
    \/ Main
    \/ RecentRequest
    \/ GetRoot
    \/ FindRepositories
    \/ Scanned
    \/ FindArchives
    \/ SortArchives
    \/ FindMysqlBackups
    \/ MostRecentMysqlBackup
    \/ Marshal
    \/ BorgListHangs

Spec == Init /\ [][Next]_vars

----------------------------------------------------------------------------
\* One borgList call at the level of the pipes.  The child is a program: the
\* writes it does, in order, each of one chunk to standard output (fd 1) or
\* standard error (fd 2), and then its exit, which closes its ends of both
\* pipes.  A write blocks while the pipe is full; a read blocks while the
\* pipe is empty and its write end is open.

WriteChoices ==
    { [fd |-> 1, data |-> "a1 Wed, 2016-01-27 03:01:19\n"],
      [fd |-> 2, data |-> "repository does not exist"],
      [fd |-> 2, data |-> "\n"],
      [fd |-> 2, data |-> "foo"] }

InitPipe ==
    /\ osArgs = << <<"backups-api">>, <<"/backups">> >>
    /\ borgLoc = "cwd"
    /\ portFree = TRUE
    /\ pc = "findArchives"
    /\ borgBinary = <<"./", "borg">>
    /\ FreshRequest
    /\ bpc = "start"
    /\ prog \in SeqsUpTo(WriteChoices, MaxWrites)
    /\ childExit \in {0, 2}
    /\ childState \in {"notstarted", "unstartable"}
    /\ pipeOut = <<>>
    /\ pipeErr = <<>>
    /\ bufOut = <<>>
    /\ bufErr = <<>>
    /\ bres = [stdout |-> <<>>, stderr |-> <<>>, err |-> Nil]

\* cmd.StdoutPipe(), cmd.StderrPipe(), cmd.Start()
BorgStart ==
    /\ bpc = "start"
    /\ childState = "notstarted"
    /\ childState' = "running"
    /\ bpc' = "readStdout"
    /\ UNCHANGED <<envVars, pc, borgBinary, reqVars, prog, childExit, pipeOut, pipeErr,
                   bufOut, bufErr, bres>>

\* cmd.Start() returns an error: borgList returns it
BorgStartFails ==
    /\ bpc = "start"
    /\ childState = "unstartable"
    /\ bres' = borgList(StartFailure)
    /\ bpc' = "returned"
    /\ UNCHANGED <<envVars, pc, borgBinary, reqVars, prog, childExit, childState,
                   pipeOut, pipeErr, bufOut, bufErr>>

\* the child's next write, when its pipe has room
ChildWrite ==
    /\ childState = "running"
    /\ prog # <<>>
    /\ LET w == Head(prog) IN
       IF w.fd = 1
       THEN /\ Len(pipeOut) < PipeCap
            /\ pipeOut' = Append(pipeOut, w.data)
            /\ UNCHANGED pipeErr
       ELSE /\ Len(pipeErr) < PipeCap
            /\ pipeErr' = Append(pipeErr, w.data)
            /\ UNCHANGED pipeOut
    /\ prog' = Tail(prog)
    /\ UNCHANGED <<envVars, pc, borgBinary, reqVars, bpc, childExit, childState,
                   bufOut, bufErr, bres>>

\* the child has written everything and exits
ChildExits ==
    /\ childState = "running"
    /\ prog = <<>>
    /\ childState' = "exited"
    /\ UNCHANGED <<envVars, pc, borgBinary, reqVars, bpc, prog, childExit, pipeOut,
                   pipeErr, bufOut, bufErr, bres>>

\* ioutil.ReadAll(stdoutPipe): a read that returns data
ReadStdout ==
    /\ bpc = "readStdout"
    /\ pipeOut # <<>>
    /\ bufOut' = bufOut \o pipeOut
    /\ pipeOut' = <<>>
    /\ UNCHANGED <<envVars, pc, borgBinary, reqVars, bpc, prog, childExit, childState,
                   pipeErr, bufErr, bres>>

\* ioutil.ReadAll(stdoutPipe): the read that returns io.EOF
StdoutEOF ==
    /\ bpc = "readStdout"
    /\ pipeOut = <<>>
    /\ childState = "exited"
    /\ bpc' = "readStderr"
    /\ UNCHANGED <<envVars, pc, borgBinary, reqVars, prog, childExit, childState,
                   pipeOut, pipeErr, bufOut, bufErr, bres>>

\* ioutil.ReadAll(stderrPipe): a read that returns data
ReadStderr ==
    /\ bpc = "readStderr"
    /\ pipeErr # <<>>
    /\ bufErr' = bufErr \o pipeErr
    /\ pipeErr' = <<>>
    /\ UNCHANGED <<envVars, pc, borgBinary, reqVars, bpc, prog, childExit, childState,
                   pipeOut, bufOut, bres>>

\* ioutil.ReadAll(stderrPipe): the read that returns io.EOF
StderrEOF ==
    /\ bpc = "readStderr"
    /\ pipeErr = <<>>
    /\ childState = "exited"
    /\ bpc' = "wait"
    /\ UNCHANGED <<envVars, pc, borgBinary, reqVars, prog, childExit, childState,
                   pipeOut, pipeErr, bufOut, bufErr, bres>>

\* ReadString, cmd.Wait() and the return
BorgWait ==
    /\ bpc = "wait"
    /\ childState = "exited"
    /\ bres' = borgList(Outcome(childExit, bufOut, bufErr))
    /\ bpc' = "returned"
    /\ UNCHANGED <<envVars, pc, borgBinary, reqVars, prog, childExit, childState,
                   pipeOut, pipeErr, bufOut, bufErr>>

NextPipe ==
    \/ BorgStart
    \/ BorgStartFails
    \/ ChildWrite
    \/ ChildExits
    \/ ReadStdout
    \/ StdoutEOF
    \/ ReadStderr
    \/ StderrEOF
    \/ BorgWait

SpecPipe == InitPipe /\ [][NextPipe]_vars

----------------------------------------------------------------------------
\* Vocabulary of the properties.

\* an archive-listing line with enough fields whose fields 1..3 parse
WellFormedLine(l) == Len(l) >= 4 /\ timeParse(SubSeq(l, 2, 4)).ok

\* an archive-listing line with enough fields whose fields 1..3 do not parse
BadLine(l) == Len(l) >= 4 /\ ~timeParse(SubSeq(l, 2, 4)).ok

BadLinesAt(stdout) == {i \in 1..Len(stdout) : BadLine(stdout[i])}

\* a run of `borg list <repository>` that succeeds and parses
CleanListing(o) == o.started /\ o.exit = 0 /\ BadLinesAt(o.stdout) = {}

\* the last well-formed record of each listing that has one, in scan order
RECURSIVE LastRecords(_, _)
LastRecords(names, outs) ==
    IF names = <<>> THEN <<>>
    ELSE LET w == SelectSeq(Head(outs).stdout, WellFormedLine)
         IN  (IF w = <<>> THEN <<>>
              ELSE << [Name     |-> w[Len(w)][1],
                       RepoName |-> Head(names),
                       Datetime |-> timeParse(SubSeq(w[Len(w)], 2, 4)).t] >>)
             \o LastRecords(Tail(names), Tail(outs))

\* the time an RFC3339 text denotes
UnixOf(date) == DayOf[date[1]] * 86400 + SecOf[date[3]]

DailyDir == <<"var", "/", "backups", "/", "mysql", "/", "daily", "/">>

NoSeparator(pieces, from, to) == \A k \in from..to : pieces[k] # "/"

\* var/backups/mysql/daily/*.sql.gz, `*` within one path element
IsSqlDump(p) ==
    LET q == PathPieces[p] IN
    /\ Len(q) >= Len(DailyDir) + 1
    /\ SubSeq(q, 1, Len(DailyDir)) = DailyDir
    /\ q[Len(q)] = ".sql.gz"
    /\ NoSeparator(q, Len(DailyDir) + 1, Len(q) - 1)

\* var/backups/mysql/daily/*/ibdata1, `*` within one path element
IsIbdata(p) ==
    LET q == PathPieces[p] IN
    /\ Len(q) >= Len(DailyDir) + 2
    /\ SubSeq(q, 1, Len(DailyDir)) = DailyDir
    /\ SubSeq(q, Len(q) - 1, Len(q)) = <<"/", "ibdata1">>
    /\ NoSeparator(q, Len(DailyDir) + 1, Len(q) - 2)

\* a qualifying file-listing line: 8 fields, size not "0", path matching
Qualifies(l) == Len(l) >= 8 /\ l[4] # "0" /\ (IsSqlDump(l[8]) \/ IsIbdata(l[8]))

RECURSIVE RecordsOf(_)
RecordsOf(lines) ==
    IF lines = <<>> THEN <<>>
    ELSE <<[Path |-> Head(lines)[8], Mtime |-> timeParse(SubSeq(Head(lines), 5, 7)).t]>>
         \o RecordsOf(Tail(lines))

\* the bytes of the first line of a stream, without its terminator
RECURSIVE FirstLineText(_)
FirstLineText(buf) ==
    IF buf = <<>> \/ Head(buf) = "\n" THEN <<>>
    ELSE <<Head(buf)>> \o FirstLineText(Tail(buf))

----------------------------------------------------------------------------
\* C1: when the root directory can be read, findRepositories returns no
\* error and exactly the directories whose probe (`borg list <root>/<dir>`)
\* exited 0, whatever the probes of the other directories did.
C1_ProbeFailureAbsorbed ==
    (pc = "scanned" /\ ~readDirErr) =>
        /\ scanErr.isNil
        /\ LET ok == SelectSeq(files, LAMBDA f : f.isDir /\ f.probe.exit = 0)
           IN  repoNames = [i \in 1..Len(ok) |-> ok[i].name]

\* C2: when every listing succeeds and parses, getMostRecentArchivesPer-
\* Repository returns, in scan order, the LAST well-formed record of each
\* repository whose listing has one, and nothing for the others; and it
\* returns an error only after a listing that failed or did not parse.
C2_NewestIsLastListed ==
    /\ pc = "sort" =>
         /\ Len(listed) = Len(repoNames)
         /\ \A i \in 1..Len(listed) : CleanListing(listed[i])
         /\ archives = LastRecords(repoNames, listed)
    /\ (pc = "responded" /\ listed # <<>>) => ~CleanListing(listed[Len(listed)])

\* C2's case: two repositories were listed, one with two well-formed lines
\* whose timestamps are out of order, one with no well-formed line; the
\* later (older) line of the first was selected and nothing for the second.
C2_Witness ==
    /\ pc = "sort"
    /\ Len(listed) = 2
    /\ Len(archives) = 1
    /\ \E i \in 1..2 :
         LET w == SelectSeq(listed[i].stdout, WellFormedLine) IN
         /\ Len(w) = 2
         /\ timeParse(SubSeq(w[1], 2, 4)).t > timeParse(SubSeq(w[2], 2, 4)).t
         /\ archives[1].Name = w[2][1]
         /\ archives[1].Datetime = timeParse(SubSeq(w[2], 2, 4)).t

\* C3: a listing line with at least 4 fields whose fields 1..3 do not parse
\* ends the request at once: it is the last listing run, no archive is kept
\* (not even of repositories listed before) and the response is 500 with
\* "Can't parse <fields 1..3 of the FIRST such line>", not a JSON array.
C3_ParseFailureFailsRequest ==
    \A i \in 1..Len(listed) :
        (listed[i].started /\ listed[i].exit = 0 /\ BadLinesAt(listed[i].stdout) # {}) =>
            LET first == listed[i].stdout[SeqMin(BadLinesAt(listed[i].stdout))] IN
            /\ i = Len(listed)
            /\ pc = "responded"
            /\ archives = <<>>
            /\ jsonItems = <<>>
            /\ response.status = StatusInternalServerError
            /\ response.ctype # "application/json"
            /\ response.body = <<"Can't parse">> \o SubSeq(first, 2, 4) \o <<"\n">>

\* C3's case: the first repository listed well, the second has a line that
\* does not parse followed by another line that does not parse either.
C3_Witness ==
    /\ pc = "responded"
    /\ Len(listed) = 2
    /\ CleanListing(listed[1])
    /\ SelectSeq(listed[1].stdout, WellFormedLine) # <<>>
    /\ listed[2].started
    /\ listed[2].exit = 0
    /\ Cardinality(BadLinesAt(listed[2].stdout)) = 2
    /\ listed[2].stdout[1] # listed[2].stdout[2]

\* C4: when a line of an archive's file listing qualifies (8 fields, size
\* not "0", path matching a glob) and its timestamp does not parse, the
\* handler answers 500 next, and does not go on to report the artifact
\* as absent.
C4_ArtifactParseErrorIs500 ==
    [][ ( /\ pc = "mostRecent"
          /\ lastOut.started
          /\ lastOut.exit = 0
          /\ \E i \in 1..Len(lastOut.stdout) :
                /\ Qualifies(lastOut.stdout[i])
                /\ ~timeParse(SubSeq(lastOut.stdout[i], 5, 7)).ok )
        => ( /\ pc' = "responded"
             /\ response'.status = StatusInternalServerError ) ]_vars

\* C5: after a non-zero exit borgList returns no stdout and an error whose
\* message is the first line of stderr without its line terminator; after
\* exit status 0 it returns no error.
C5_ErrorIsFirstStderrLine ==
    (bpc = "returned" /\ childState = "exited") =>
        IF childExit # 0
        THEN /\ bres.stdout = <<>>
             /\ ~bres.err.isNil
             /\ bres.err.msg = FirstLineText(bufErr)
        ELSE bres.err.isNil

\* C6: when reading the root directory fails, findRepositories returns an
\* error, and the request is answered 500 and not with a JSON array.
C6_ReadDirFailureIsError ==
    /\ (pc = "scanned" /\ readDirErr) => ~scanErr.isNil
    /\ (pc = "responded" /\ readDirErr) => response.status = StatusInternalServerError

\* C7: the server listens, and a request is handled, only after the root
\* argument was validated and the tool binary resolved.
C7_ValidatedBeforeServing ==
    pc \notin {"main", "exited"} =>
        /\ getRoot(osArgs).err.isNil
        /\ borgBinary # <<>>

\* C8: a 200 response is a JSON array with one item per selected archive,
\* each the repo and RFC3339 date of its archive, in ascending date order,
\* whatever the artifact lookups gave.
C8_ResponseSortedByDate ==
    (pc = "responded" /\ response.status = StatusOK) =>
        LET items == response.body IN
        /\ response.ctype = "application/json"
        /\ Len(items) = Len(returned)
        /\ archives \in Reorderings(returned)
        /\ \A i \in 1..Len(items) :
             /\ items[i].repo = archives[i].RepoName
             /\ items[i].date = FormatRFC3339(archives[i].Datetime)
             /\ UnixOf(items[i].date) = archives[i].Datetime
        /\ \A i \in 1..(Len(items) - 1) :
             UnixOf(items[i].date) <= UnixOf(items[i + 1].date)

\* C8's case: the archives came back newest first, so the sort had to swap
\* them; the lookup found an artifact for one item and none for the other.
C8_Witness ==
    /\ pc = "responded"
    /\ response.status = StatusOK
    /\ Len(returned) = 2
    /\ returned[1].Datetime > returned[2].Datetime
    /\ response.body[1].repo = returned[2].RepoName
    /\ response.body[1].mysql_date = <<>>
    /\ response.body[2].mysql_date # <<>>

C10_NoPipeDeadlock ==
    ~ ( /\ bpc = "readStdout"
        /\ pipeOut = <<>>
        /\ childState = "running"
        /\ prog # <<>>
        /\ Head(prog).fd = 2
        /\ Len(pipeErr) >= PipeCap )

====
